---- MODULE Spec2Model ----
(***************************************************************************)
(* Model of the windowed multi-run dataset (H5Dataset, loaders.py) and of  *)
(* the epoch loop of the training driver (main, train_model.py).           *)
(*                                                                         *)
(* A store is the sequence of the groups (simulation runs) of one HDF5     *)
(* file; a run is modelled by its number of time steps T and by the set of *)
(* named datasets it holds.  A field snapshot is identified by (run,       *)
(* step), so that a sample is the triple (run, step, step of the target).  *)
(***************************************************************************)
EXTENDS Integers, Sequences, FiniteSets, TLC

VARIABLES
    fileExists,        \* the file {path}/{mode}_data.h5 is there
    store,             \* its groups, in key order
    skip,              \* the skip argument of the constructor
    mode,              \* self.mode
    dpc,               \* "new", "open", "failed", "closed"
    group_boundaries,  \* self.group_boundaries, indexed from 0
    n_groups,          \* self.n_groups
    op,                \* the last call made on the dataset and its argument
    outcome,           \* what that call returned or raised
    n_epochs,          \* args.n_epochs
    valid_freq,        \* args.valid_freq
    tpc,               \* position of main in the epoch loop
    epoch,             \* the loop variable
    model,             \* version of the model parameters (train phases run)
    val_loss,          \* val_loss of the current epoch
    min_val_loss,      \* min_val_loss
    files,             \* content of the two checkpoint files
    events             \* what main has done so far, in order

dvars == <<fileExists, store, skip, mode, dpc, group_boundaries, n_groups, op, outcome>>
tvars == <<n_epochs, valid_freq, tpc, epoch, model, val_loss, min_val_loss, files, events>>
vars == <<fileExists, store, skip, mode, dpc, group_boundaries, n_groups, op, outcome,
          n_epochs, valid_freq, tpc, epoch, model, val_loss, min_val_loss, files, events>>

----------------------------------------------------------------------------
(* Bounds *)

MaxRuns == 3
MaxLen == 3
MaxSkip == 2
MaxMissing == 1
MaxSlack == 2
MaxEpochs == 4
MaxValidFreq == 3
MaxLoss == 5

----------------------------------------------------------------------------
(* The backing store *)

DatasetNames == {"time", "field_values", "x_coordinates", "y_coordinates"}

ValidModes == {"train", "valid", "test"}

\* the modes tried: one the constructor accepts, one it rejects
ModeInputs == {"train", "bogus"}

\* the subsets of S of at most k elements
RECURSIVE UpTo(_, _)
UpTo(S, k) ==
    IF k = 0 THEN {{}}
    ELSE UpTo(S, k - 1) \cup {A \cup {x} : A \in UpTo(S, k - 1), x \in S}

\* the store of runs of the given lengths, less the datasets (g, name) of gone
MakeStore(lens, gone) ==
    [g \in 1..Len(lens) |->
        [T |-> lens[g], has |-> {nm \in DatasetNames : <<g, nm>> \notin gone}]]

RECURSIVE MissingCount(_)
MissingCount(s) ==
    IF s = <<>> THEN 0
    ELSE Cardinality(DatasetNames \ Head(s).has) + MissingCount(Tail(s))

\* stores with every dataset in place, of any run lengths
CompleteStores ==
    {MakeStore(lens, {}) : lens \in UNION {[1..n -> 0..MaxLen] : n \in 0..MaxRuns}}

\* stores of runs of one length that lack up to MaxMissing datasets
MalformedStores ==
    UNION { UNION { {MakeStore([g \in 1..n |-> t], gone) :
                        gone \in UpTo((1..n) \X DatasetNames, MaxMissing)} :
                    t \in 0..MaxLen } :
            n \in 1..MaxRuns }

\* the store of the worked example: runs of 10 and 20 time steps
ExampleStore == MakeStore(<<10, 20>>, {})

Stores == CompleteStores \cup MalformedStores \cup {ExampleStore}

----------------------------------------------------------------------------
(* numpy and Python helpers used by the dataset *)

\* a Python / numpy / h5py integer index into a sequence of n items:
\* negative indices count from the end; -1 when out of range
PyIndex(i, n) ==
    IF i < 0 THEN (IF n + i >= 0 THEN n + i ELSE -1)
    ELSE (IF i < n THEN i ELSE -1)

RECURSIVE SumTo(_, _)
SumTo(f, k) == IF k = 0 THEN 0 ELSE f[k] + SumTo(f, k - 1)

\* np.cumsum([0] + counts), as a function on 0..Len(counts)
Cumsum0(counts) == [k \in 0..Len(counts) |-> SumTo(counts, k)]

\* numpy's check of the bins: 1 non-decreasing, -1 non-increasing, 0 neither
Monotonicity(bins, n) ==
    IF \A k \in 1..n : bins[k - 1] <= bins[k] THEN 1
    ELSE IF \A k \in 1..n : bins[k - 1] >= bins[k] THEN -1
    ELSE 0

\* side='left' in place of side='right': the entries < x
SearchsortedLeft(bins, n, x) == Cardinality({k \in 0..n : bins[k] < x})

\* np.searchsorted(sorted bins, x, side='right'): the entries <= x
SearchsortedRight(bins, n, x) == Cardinality({k \in 0..n : bins[k] <= x})

\* np.digitize(x, bins, right=False); -2 stands for the ValueError raised
\* when the bins are not monotonic (no result is below 0 otherwise)
Digitize(x, bins, n) ==
    LET mono == Monotonicity(bins, n) IN
    IF mono = 0 THEN -2
    ELSE IF mono = -1 THEN (n + 1) - SearchsortedRight(bins, n, x)
    ELSE SearchsortedRight(bins, n, x)

----------------------------------------------------------------------------
(* Outcomes of a call *)

Res(kind, a, b, c) == [kind |-> kind, a |-> a, b |-> b, c |-> c]

NoRes == Res("none", 0, 0, 0)

Raise(exc) == Res(exc, 0, 0, 0)

NoOp == [name |-> "none", arg |-> 0]

----------------------------------------------------------------------------
(* H5Dataset *)

\* the per-run sample counts of the constructor
SampleCounts(s, sk) == [g \in 1..Len(s) |-> s[g].T - sk]

\* a constructor that reads no dataset of the runs
AllHaveTime_unread(s) == TRUE

\* self.h5f[g]['time'] exists for every group g
AllHaveTime(s) == \A g \in 1..Len(s) : "time" \in s[g].has

\* H5Dataset.__init__
Construct(m) ==
    /\ dpc = "new"
    /\ op' = [name |-> "init", arg |-> 0]
    /\ mode' = m
    /\ IF m \notin ValidModes
         THEN /\ dpc' = "failed"
              /\ outcome' = Raise("ValueError")
              /\ UNCHANGED <<group_boundaries, n_groups>>
       ELSE IF ~fileExists
         THEN /\ dpc' = "failed"
              /\ outcome' = Raise("OSError")
              /\ UNCHANGED <<group_boundaries, n_groups>>
       ELSE IF ~AllHaveTime(store)
         THEN /\ dpc' = "failed"
              /\ outcome' = Raise("KeyError")
              /\ UNCHANGED <<group_boundaries, n_groups>>
       ELSE /\ dpc' = "open"
            /\ outcome' = Res("constructed", 0, 0, 0)
            /\ group_boundaries' = Cumsum0(SampleCounts(store, skip))
            /\ n_groups' = Len(store)
    /\ UNCHANGED <<fileExists, store, skip>>
    /\ UNCHANGED tvars

\* H5Dataset.__len__
LenValue == group_boundaries[n_groups]

DatasetLen ==
    /\ dpc = "open"
    /\ op' = [name |-> "len", arg |-> 0]
    /\ outcome' = Res("len", LenValue, 0, 0)
    /\ UNCHANGED <<fileExists, store, skip, mode, dpc, group_boundaries, n_groups>>
    /\ UNCHANGED tvars

\* self.h5f[self.group_names[gid]][name][k], k an integer: the step read,
\* or the exception raised
ReadStep(gid, name, k) ==
    LET g == PyIndex(gid, n_groups) IN
    IF g = -1 THEN Raise("IndexError")
    ELSE IF name \notin store[g + 1].has THEN Raise("KeyError")
    ELSE IF PyIndex(k, store[g + 1].T) = -1 THEN Raise("IndexError")
    ELSE Res("step", g, PyIndex(k, store[g + 1].T), 0)

\* the result of H5Dataset.__getitem__(index)
GetItemResult(index) ==
    LET d == Digitize(index, group_boundaries, n_groups) IN
    IF d = -2 THEN Raise("ValueError")
    ELSE
      LET group_id == d - 1
          index_within_group ==
              index - group_boundaries[PyIndex(group_id, n_groups + 1)]
          field_data == ReadStep(group_id, "field_values", index_within_group)
          next_field_data ==
              ReadStep(group_id, "field_values", index_within_group + skip)
      IN IF field_data.kind # "step" THEN field_data
         ELSE IF next_field_data.kind # "step" THEN next_field_data
         ELSE Res("sample", field_data.a, field_data.b, next_field_data.b)

Max0(x) == IF x < 0 THEN 0 ELSE x

\* the indices tried: a few below 0, the valid ones, a few past the end
IndexInputs == (0 - MaxSlack) .. (Max0(LenValue) + MaxSlack)

GetItem(index) ==
    /\ dpc = "open"
    /\ op' = [name |-> "getitem", arg |-> index]
    /\ outcome' = GetItemResult(index)
    /\ UNCHANGED <<fileExists, store, skip, mode, dpc, group_boundaries, n_groups>>
    /\ UNCHANGED tvars

\* the result of H5Dataset.get_meshgrid(group_id)
MeshgridResult(group_id) ==
    LET g == PyIndex(group_id, n_groups) IN
    IF g = -1 THEN Raise("IndexError")
    ELSE IF "x_coordinates" \notin store[g + 1].has THEN Raise("KeyError")
    ELSE IF "y_coordinates" \notin store[g + 1].has THEN Raise("KeyError")
    ELSE Res("meshgrid", g, 0, 0)

GetMeshgrid(group_id) ==
    /\ dpc = "open"
    /\ op' = [name |-> "get_meshgrid", arg |-> group_id]
    /\ outcome' = MeshgridResult(group_id)
    /\ UNCHANGED <<fileExists, store, skip, mode, dpc, group_boundaries, n_groups>>
    /\ UNCHANGED tvars

\* the result of H5Dataset.get_simulation(group_id)
SimulationResult(group_id) ==
    LET g == PyIndex(group_id, n_groups) IN
    IF g = -1 THEN Raise("IndexError")
    ELSE IF "time" \notin store[g + 1].has THEN Raise("KeyError")
    ELSE IF "field_values" \notin store[g + 1].has THEN Raise("KeyError")
    ELSE Res("simulation", g, store[g + 1].T, 0)

GetSimulation(group_id) ==
    /\ dpc = "open"
    /\ op' = [name |-> "get_simulation", arg |-> group_id]
    /\ outcome' = SimulationResult(group_id)
    /\ UNCHANGED <<fileExists, store, skip, mode, dpc, group_boundaries, n_groups>>
    /\ UNCHANGED tvars

\* H5Dataset.close
Close ==
    /\ dpc = "open"
    /\ dpc' = "closed"
    /\ op' = [name |-> "close", arg |-> 0]
    /\ outcome' = NoRes
    /\ UNCHANGED <<fileExists, store, skip, mode, group_boundaries, n_groups>>
    /\ UNCHANGED tvars

GroupInputs == (0 - 1) .. n_groups

\* use of the dataset after close is left out: the library decides what it does

----------------------------------------------------------------------------
(* Validation losses: Python floats that are finite, +inf or nan *)

Fin(v) == [k |-> "fin", v |-> v]

Inf == [k |-> "inf", v |-> 0]

NaN == [k |-> "nan", v |-> 0]

LossInputs == {Fin(v) : v \in 0..MaxLoss} \cup {Inf, NaN}

\* a < b on floats: false as soon as one side is nan
FloatLess(a, b) ==
    /\ a.k = "fin"
    /\ \/ b.k = "inf"
       \/ b.k = "fin" /\ a.v < b.v

----------------------------------------------------------------------------
(* The training driver *)

\* f'{model_path}/checkpoint_model_tskip_{args.time_skip}.pt'
CheckpointPath == <<"model_{timestring}", "checkpoint_model_tskip_{time_skip}.pt">>

\* save_path of setup_directories
SavePath == <<"model_{timestring}",
              "model_savetime_{timestring}_batchsize_{batch_size}_timeskip_{time_skip}.pt">>

Paths == {CheckpointPath, SavePath}

NoFile == 0 - 1

Ev(what, e, loss) == [what |-> what, epoch |-> e, loss |-> loss]

\* for epoch in range(args.n_epochs): the loop head
LoopHead ==
    /\ tpc = "loop"
    /\ IF epoch < n_epochs THEN tpc' = "train" ELSE tpc' = "finalize"
    /\ UNCHANGED <<n_epochs, valid_freq, epoch, model, val_loss, min_val_loss, files, events>>
    /\ UNCHANGED dvars

\* the training step: the pass over train_loader
TrainPhase ==
    /\ tpc = "train"
    /\ model' = model + 1
    /\ events' = Append(events, Ev("train", epoch, NaN))
    /\ tpc' = "validate"
    /\ UNCHANGED <<n_epochs, valid_freq, epoch, val_loss, min_val_loss, files>>
    /\ UNCHANGED dvars

\* the end of the loop body
NextEpoch ==
    /\ epoch' = epoch + 1
    /\ tpc' = "loop"

\* if epoch % args.valid_freq == 0: the pass over valid_loader and its mean
ValidationPhase(loss) ==
    /\ tpc = "validate"
    /\ IF epoch % valid_freq = 0
         THEN /\ val_loss' = loss
              /\ events' = Append(events, Ev("valid", epoch, loss))
              /\ tpc' = "checkpoint"
              /\ UNCHANGED epoch
         ELSE /\ NextEpoch
              /\ UNCHANGED <<val_loss, events>>
    /\ UNCHANGED <<n_epochs, valid_freq, model, min_val_loss, files>>
    /\ UNCHANGED dvars

\* <= in place of <
Improved_ties(loss, best) ==
    FloatLess(loss, best) \/ (loss.k # "nan" /\ loss = best)

\* the guard of the checkpoint
Improved(loss, best) == FloatLess(loss, best)

\* the checkpoint without the update of min_val_loss
Checkpoint_noupdate ==
    /\ tpc = "checkpoint"
    /\ IF Improved(val_loss, min_val_loss)
         THEN /\ files' = [files EXCEPT ![CheckpointPath] = model]
              /\ events' = Append(events, Ev("checkpoint", epoch, val_loss))
              /\ UNCHANGED min_val_loss
         ELSE UNCHANGED <<files, min_val_loss, events>>
    /\ tpc' = "scheduler"
    /\ UNCHANGED <<n_epochs, valid_freq, epoch, model, val_loss>>
    /\ UNCHANGED dvars

\* the scheduler step taken only when no checkpoint is written
Checkpoint_else ==
    /\ tpc = "checkpoint"
    /\ IF Improved(val_loss, min_val_loss)
         THEN /\ files' = [files EXCEPT ![CheckpointPath] = model]
              /\ min_val_loss' = val_loss
              /\ events' = Append(events, Ev("checkpoint", epoch, val_loss))
              /\ NextEpoch
         ELSE /\ UNCHANGED <<files, min_val_loss, events, epoch>>
              /\ tpc' = "scheduler"
    /\ UNCHANGED <<n_epochs, valid_freq, model, val_loss>>
    /\ UNCHANGED dvars

\* if val_loss < min_val_loss: save the state_dict, update min_val_loss
Checkpoint ==
    /\ tpc = "checkpoint"
    /\ IF Improved(val_loss, min_val_loss)
         THEN /\ files' = [files EXCEPT ![CheckpointPath] = model]
              /\ min_val_loss' = val_loss
              /\ events' = Append(events, Ev("checkpoint", epoch, val_loss))
         ELSE UNCHANGED <<files, min_val_loss, events>>
    /\ tpc' = "scheduler"
    /\ UNCHANGED <<n_epochs, valid_freq, epoch, model, val_loss>>
    /\ UNCHANGED dvars

\* scheduler.step(val_loss)
SchedulerStep ==
    /\ tpc = "scheduler"
    /\ events' = Append(events, Ev("scheduler", epoch, val_loss))
    /\ NextEpoch
    /\ UNCHANGED <<n_epochs, valid_freq, model, val_loss, min_val_loss, files>>
    /\ UNCHANGED dvars

\* the final save sent to the path of the best checkpoint
Finalize_samepath ==
    /\ tpc = "finalize"
    /\ files' = [files EXCEPT ![CheckpointPath] = model]
    /\ events' = Append(events, Ev("final", epoch, NaN))
    /\ tpc' = "done"
    /\ UNCHANGED <<n_epochs, valid_freq, epoch, model, val_loss, min_val_loss>>
    /\ UNCHANGED dvars

\* torch.save(model.state_dict(), save_path) after the loop
Finalize ==
    /\ tpc = "finalize"
    /\ files' = [files EXCEPT ![SavePath] = model]
    /\ events' = Append(events, Ev("final", epoch, NaN))
    /\ tpc' = "done"
    /\ UNCHANGED <<n_epochs, valid_freq, epoch, model, val_loss, min_val_loss>>
    /\ UNCHANGED dvars

----------------------------------------------------------------------------
(* Specifications *)

DataInit ==
    /\ fileExists \in BOOLEAN
    /\ store \in Stores
    /\ (~fileExists) => store = <<>>
    /\ skip \in 1..MaxSkip
    /\ mode = "unset"
    /\ dpc = "new"
    /\ group_boundaries = [k \in 0..0 |-> 0]
    /\ n_groups = 0
    /\ op = NoOp
    /\ outcome = NoRes

TrainInit ==
    /\ n_epochs \in 0..MaxEpochs
    /\ valid_freq \in 1..MaxValidFreq
    /\ tpc = "loop"
    /\ epoch = 0
    /\ model = 0
    /\ val_loss = NaN
    /\ min_val_loss = Inf
    /\ files = [p \in Paths |-> NoFile]
    /\ events = <<>>

\* the dataset alone: the driver has not started
InitData ==
    /\ DataInit
    /\ n_epochs = 0
    /\ valid_freq = 1
    /\ tpc = "loop"
    /\ epoch = 0
    /\ model = 0
    /\ val_loss = NaN
    /\ min_val_loss = Inf
    /\ files = [p \in Paths |-> NoFile]
    /\ events = <<>>

\* the driver alone: one fixed, well-formed store
InitTrain ==
    /\ TrainInit
    /\ fileExists = TRUE
    /\ store = ExampleStore
    /\ skip = 1
    /\ mode = "unset"
    /\ dpc = "new"
    /\ group_boundaries = [k \in 0..0 |-> 0]
    /\ n_groups = 0
    /\ op = NoOp
    /\ outcome = NoRes

NextData ==
    \/ \E m \in ModeInputs : Construct(m)
    \/ DatasetLen
    \/ \E index \in IndexInputs : GetItem(index)
    \/ \E group_id \in GroupInputs : GetMeshgrid(group_id)
    \/ \E group_id \in GroupInputs : GetSimulation(group_id)
    \/ Close

NextTrain ==
    \/ LoopHead
    \/ TrainPhase
    \/ \E loss \in LossInputs : ValidationPhase(loss)
    \/ Checkpoint
    \/ SchedulerStep
    \/ Finalize

SpecData == InitData /\ [][NextData]_vars

SpecTrain == InitTrain /\ [][NextTrain]_vars

----------------------------------------------------------------------------
(* Properties of the dataset *)

\* number of time steps of run r, r counted from 0
RunLen(r) == store[r + 1].T

WellFormed == MissingCount(store) = 0

AllLonger == \A r \in 0..(Len(store) - 1) : RunLen(r) > skip

RECURSIVE ClampedTotal(_, _)
ClampedTotal(s, sk) ==
    IF s = <<>> THEN 0
    ELSE Max0(Head(s).T - sk) + ClampedTotal(Tail(s), sk)

ValidIndex(i) == 0 <= i /\ i < LenValue

\* the sample (r, j, j + skip) lies in the bucket of index i and inside run r
ResolvesTo(i, res) ==
    /\ res.kind = "sample"
    /\ res.a \in 0..(n_groups - 1)
    /\ group_boundaries[res.a] <= i
    /\ i < group_boundaries[res.a + 1]
    /\ res.b = i - group_boundaries[res.a]
    /\ 0 <= res.b
    /\ res.b < RunLen(res.a) - skip
    /\ res.c = res.b + skip
    /\ res.c < RunLen(res.a)

\* C1: every lookup with a valid global index, whatever the run lengths and
\* the skip, returns steps j and j + skip of the run r whose bucket holds the
\* index, with 0 <= j < L_r - skip.
C1_Claim ==
    (op.name = "getitem" /\ WellFormed /\ ValidIndex(op.arg))
        => ResolvesTo(op.arg, outcome)

\* C2: the length query returns the sum over the runs of max(0, L_i - skip),
\* which is the final cumulative boundary value.
C2_Claim ==
    (op.name = "len")
        => /\ outcome.a = ClampedTotal(store, skip)
           /\ outcome.a = group_boundaries[n_groups]

\* C3: a lookup with an index below 0 or at or past length() ends in an
\* out-of-range error and never returns a sample.
C3_Claim ==
    (op.name = "getitem" /\ WellFormed /\ AllLonger /\ ~ValidIndex(op.arg))
        => outcome.kind = "IndexError"

\* C6: after construction the boundary sequence has n_runs + 1 entries, starts
\* at 0 and is non-decreasing, each run contributing max(0, len(run) - skip).
C6_Claim ==
    (dpc = "open")
        => /\ n_groups = Len(store)
           /\ DOMAIN group_boundaries = 0..n_groups
           /\ group_boundaries[0] = 0
           /\ \A r \in 0..(n_groups - 1) :
                 /\ group_boundaries[r] <= group_boundaries[r + 1]
                 /\ group_boundaries[r + 1] - group_boundaries[r]
                        = Max0(RunLen(r) - skip)

\* a run of the store lacks one of its named datasets
Malformed == MissingCount(store) > 0

Lacks(r, name) == name \notin store[r + 1].has

TimeEverywhere == \A r \in 0..(Len(store) - 1) : ~Lacks(r, "time")

\* C7 as stated: a run that lacks a named dataset never makes construction
\* fail.
C7_Claim ==
    (op.name = "init" /\ mode \in ValidModes /\ fileExists /\ Malformed)
        => outcome.kind = "constructed"

\* C7 as amended: construction fails on a missing dataset exactly when some run
\* lacks its time values; a run that lacks its field values or a coordinate
\* array is reported only by the access that reads that dataset of that run.
C7_Amended ==
    /\ (op.name = "init" /\ mode \in ValidModes /\ fileExists)
          => /\ (outcome.kind = "KeyError") = (~TimeEverywhere)
             /\ (outcome.kind = "constructed") = TimeEverywhere
    /\ (dpc = "open") => TimeEverywhere
    /\ (op.name = "getitem" /\ outcome.kind = "KeyError")
          => \E r \in 0..(n_groups - 1) : Lacks(r, "field_values")
    /\ (op.name = "getitem" /\ ValidIndex(op.arg) /\ AllLonger)
          => \A r \in 0..(n_groups - 1) :
                (group_boundaries[r] <= op.arg /\ op.arg < group_boundaries[r + 1])
                   => ((outcome.kind = "KeyError") = Lacks(r, "field_values"))
    /\ (op.name = "get_meshgrid" /\ PyIndex(op.arg, n_groups) # -1)
          => ((outcome.kind = "KeyError")
                = (\/ Lacks(PyIndex(op.arg, n_groups), "x_coordinates")
                   \/ Lacks(PyIndex(op.arg, n_groups), "y_coordinates")))
    /\ (op.name = "get_simulation" /\ PyIndex(op.arg, n_groups) # -1)
          => ((outcome.kind = "KeyError")
                = Lacks(PyIndex(op.arg, n_groups), "field_values"))

\* a store whose first run lacks its field values was opened and the lookup of
\* a valid index of that run raised
C7_Witness ==
    /\ op.name = "getitem"
    /\ dpc = "open"
    /\ n_groups >= 2
    /\ Lacks(0, "field_values")
    /\ AllLonger
    /\ op.arg = 0
    /\ outcome.kind = "KeyError"

\* the pairs (run, offset) of the store
Pairs ==
    UNION {{<<r, j>> : j \in 0..(RunLen(r) - skip - 1)} : r \in 0..(n_groups - 1)}

PairOf(i) == <<GetItemResult(i).a, GetItemResult(i).b>>

LexLess(p, q) == p[1] < q[1] \/ (p[1] = q[1] /\ p[2] < q[2])

\* C9: when every run has more than skip time steps, the index resolution of
\* the lookup is a bijection from the indices 0..length()-1 onto the pairs
\* (r, j) with 0 <= j < L_r - skip, increasing in run order then offset order.
C9_Bijection ==
    (dpc = "open" /\ WellFormed /\ AllLonger)
        => /\ \A i \in 0..(LenValue - 1) :
                 /\ GetItemResult(i).kind = "sample"
                 /\ PairOf(i) \in Pairs
           /\ \A i1, i2 \in 0..(LenValue - 1) :
                 (i1 < i2) => LexLess(PairOf(i1), PairOf(i2))
           /\ \A p \in Pairs : \E i \in 0..(LenValue - 1) : PairOf(i) = p

\* the last valid index of a store of several runs was looked up and resolved
\* to the last offset of the last run
C9_Witness ==
    /\ op.name = "getitem"
    /\ WellFormed
    /\ AllLonger
    /\ n_groups >= 2
    /\ op.arg = LenValue - 1
    /\ op.arg > 0
    /\ outcome.kind = "sample"
    /\ outcome.a = n_groups - 1
    /\ outcome.b = RunLen(n_groups - 1) - skip - 1

----------------------------------------------------------------------------
(* Properties of the training driver *)

EventsOf(what) == SelectSeq(events, LAMBDA x : x.what = what)

EpochsOf(what) == {EventsOf(what)[k].epoch : k \in 1..Len(EventsOf(what))}

\* the step appends an event of this kind
Appends(what) ==
    /\ Len(events') = Len(events) + 1
    /\ events'[Len(events')].what = what

\* the validation losses of the run so far, in epoch order
ValidLosses == [k \in 1..Len(EventsOf("valid")) |-> EventsOf("valid")[k].loss]

C4_Step ==
    /\ (tpc = "checkpoint")
          => (Appends("checkpoint") = FloatLess(val_loss, min_val_loss))
    /\ Appends("checkpoint")
          => /\ tpc = "checkpoint"
             /\ epoch % valid_freq = 0
             /\ files'[CheckpointPath] = model
             /\ min_val_loss' = val_loss
    /\ (~Appends("checkpoint"))
          => /\ min_val_loss' = min_val_loss
             /\ files'[CheckpointPath] = files[CheckpointPath]
    /\ (tpc = "checkpoint" /\ val_loss = min_val_loss) => ~Appends("checkpoint")

\* losses 0.5, 0.3, 0.4, 0.2 in tenths
ExampleLosses == <<Fin(5), Fin(3), Fin(4), Fin(2)>>

C4_Example ==
    /\ (events = <<>>) => min_val_loss = Inf
    /\ (tpc = "done" /\ valid_freq = 1 /\ ValidLosses = ExampleLosses)
          => EpochsOf("checkpoint") = {0, 1, 3}

\* C4: a best checkpoint is written in a validating epoch exactly when that
\* epoch's validation loss is strictly below the best-seen value, which starts
\* at +inf and changes only then, to that loss; an equal loss writes nothing.
\* Over the losses 0.5, 0.3, 0.4, 0.2 it is written in epochs 0, 1 and 3.
C4_Checkpoint == [][C4_Step]_vars /\ []C4_Example

\* the loop ran over the example losses: the last one improved, the third did
\* not
C4_Witness ==
    /\ tpc = "done"
    /\ valid_freq = 1
    /\ ValidLosses = ExampleLosses
    /\ 3 \in EpochsOf("checkpoint")
    /\ 2 \notin EpochsOf("checkpoint")
    /\ min_val_loss = Fin(2)

\* C5: a run that completes its epochs writes the final checkpoint exactly
\* once, after everything else, to a path other than the best-checkpoint path,
\* whether or not a best checkpoint was written.
C5_Final ==
    /\ SavePath # CheckpointPath
    /\ (tpc = "done")
          => /\ Len(EventsOf("final")) = 1
             /\ events[Len(events)].what = "final"
             /\ Len(EventsOf("train")) = n_epochs
             /\ epoch = n_epochs
             /\ files[SavePath] = model
             /\ model = n_epochs
    /\ (tpc # "done")
          => /\ Len(EventsOf("final")) = 0
             /\ files[SavePath] = NoFile

\* a run of several epochs ended without any best checkpoint and wrote the
\* final one
C5_Witness ==
    /\ tpc = "done"
    /\ n_epochs >= 2
    /\ files[CheckpointPath] = NoFile
    /\ files[SavePath] = n_epochs
    /\ Len(EventsOf("valid")) >= 1

\* the events of epoch e, the final save apart
PerEpoch(e) == SelectSeq(events, LAMBDA x : x.epoch = e /\ x.what # "final")

\* what a finished epoch e has done
EpochShape(e) ==
    LET evs == PerEpoch(e) IN
    IF e % valid_freq # 0
      THEN Len(evs) = 1 /\ evs[1].what = "train"
      ELSE /\ Len(evs) \in {3, 4}
           /\ evs[1].what = "train"
           /\ evs[2].what = "valid"
           /\ evs[Len(evs)].what = "scheduler"
           /\ evs[Len(evs)].loss = evs[2].loss
           /\ (Len(evs) = 4) => evs[3].what = "checkpoint"

\* C8: validation runs exactly in the epochs n with n % valid_freq = 0, after
\* the training phase; the scheduler step is taken once in each of them, after
\* the checkpoint decision and with that epoch's loss, and in no other epoch.
C8_Phases ==
    /\ \A e \in 0..(epoch - 1) : EpochShape(e)
    /\ \A k \in 1..Len(events) :
          (events[k].what \in {"valid", "checkpoint", "scheduler"})
             => events[k].epoch % valid_freq = 0
    /\ \A k \in 1..(Len(events) - 1) : events[k].epoch <= events[k + 1].epoch
    /\ \A e \in 0..epoch :
          Len(SelectSeq(events, LAMBDA x : x.epoch = e /\ x.what = "scheduler")) <= 1
    /\ (tpc = "done") => EpochsOf("scheduler") = {e \in 0..(n_epochs - 1) : e % valid_freq = 0}
    /\ (tpc = "done") => EpochsOf("valid") = EpochsOf("scheduler")

\* a run with validation every second epoch ended: the scheduler stepped in
\* epoch 2, where no checkpoint was written, and not in epoch 1
C8_Witness ==
    /\ tpc = "done"
    /\ valid_freq = 2
    /\ n_epochs >= 3
    /\ 2 \in EpochsOf("scheduler")
    /\ 2 \notin EpochsOf("checkpoint")
    /\ 0 \in EpochsOf("checkpoint")
    /\ 1 \notin EpochsOf("scheduler")

\* the validation losses the checkpoint decision has seen
SeenLosses ==
    {events[k].loss : k \in {i \in 1..Len(events) :
        /\ events[i].what = "valid"
        /\ (events[i].epoch < epoch \/ tpc # "checkpoint")}}

\* the least of a set of losses, nan left aside; +inf when there is none
MinOf(S) ==
    CHOOSE m \in (S \cup {Inf}) \ {NaN} :
        \A x \in S \ {NaN} : ~FloatLess(x, m)

\* the parameters a checkpoint of epoch e holds
ParamsOf(e) == e + 1

\* the validating epochs whose loss is the least seen
Attained ==
    {events[k].epoch : k \in {i \in 1..Len(events) :
        events[i].what = "valid" /\ events[i].loss = MinOf(SeenLosses)}}

Earliest(S) == CHOOSE e \in S : \A f \in S : e <= f

\* C10 as stated: when the loop ends, the best checkpoint holds the parameters
\* of the earliest validating epoch that attained the least validation loss.
C10_Claim ==
    (tpc = "done" /\ Len(EventsOf("valid")) > 0)
        => /\ Attained # {}
           /\ files[CheckpointPath] = ParamsOf(Earliest(Attained))

C10_State ==
    /\ min_val_loss = MinOf(SeenLosses)
    /\ (min_val_loss # Inf)
          => /\ Attained # {}
             /\ files[CheckpointPath] = ParamsOf(Earliest(Attained))
    /\ (min_val_loss = Inf) => files[CheckpointPath] = NoFile

\* C10 as amended: after each checkpoint decision the best-seen value is the
\* least of the validation losses seen that are not nan (+inf when there is
\* none) and it never increases; while it is below +inf the best checkpoint
\* holds the parameters of the earliest validating epoch that attained it,
\* and while it is +inf no best checkpoint has been written.
C10_Amended == []C10_State /\ [][~FloatLess(min_val_loss, min_val_loss')]_vars

\* the loop ended after the least loss was met twice: the checkpoint is the
\* one of the first of the two epochs
C10_Witness ==
    /\ tpc = "done"
    /\ valid_freq = 1
    /\ n_epochs = 3
    /\ ValidLosses = <<Fin(4), Fin(2), Fin(2)>>
    /\ files[CheckpointPath] = ParamsOf(1)
    /\ min_val_loss = Fin(2)

====
